---- MODULE Spec2Model ----
(***************************************************************************)
(* Donation ledger and campaign funding routes of the Pet Haven server     *)
(* (src/index.js).  The two MongoDB collections donationCampaigns and      *)
(* donations are the shared state; every HTTP request is a process that    *)
(* runs its handler one storage call at a time, so that the storage calls  *)
(* of concurrent requests interleave freely.                               *)
(***************************************************************************)
EXTENDS Integers, FiniteSets, Sequences, TLC

\* ---- bounds of the model ----
MaxCampaigns == 1        \* campaigns ever created
MaxDonations == 2        \* donation documents ever inserted
MaxProcs == 2            \* requests in flight at the same time
MaxListed == 3           \* campaigns in a collection that is listed

\* ---- inputs ----
Emails == {"u1", "u2"}                     \* req.user.email of the verified token
Admins == {"u2"}                           \* users whose role is "admin"
Procs == 1..MaxProcs
CampaignIds == 1..(MaxCampaigns + 1)       \* well-formed ObjectIds sent as a campaign id;
                                           \* the last one is never the _id of a campaign
DonationIds == 1..MaxDonations             \* well-formed ObjectIds of donations
PausedInputs == {"true", "false", "absent"} \* body.paused

\* req.body of POST /donations: donationId 0 stands for a missing campaign id,
\* amount 0 is falsy in JS, hasTransactionId tells a non-empty transactionId
DonationBodies ==
    [donationId : CampaignIds, amount : {1, 2}, hasTransactionId : {TRUE}]
    \cup {[donationId |-> 0, amount |-> 1, hasTransactionId |-> TRUE],
          [donationId |-> 1, amount |-> 0, hasTransactionId |-> TRUE],
          [donationId |-> 1, amount |-> 1, hasTransactionId |-> FALSE]}

\* JSON values of a request body, as JS sees them
JsNum(n) == [t |-> "number", n |-> n, s |-> ""]
JsStr(s) == [t |-> "string", n |-> 0, s |-> s]
JsUndefined == [t |-> "undefined", n |-> 0, s |-> ""]

\* !v: undefined, the number 0 and the empty string are falsy
Falsy(v) ==
    \/ v.t = "undefined"
    \/ v.t = "number" /\ v.n = 0
    \/ v.t = "string" /\ v.s = ""

\* the strings of the inputs that Number() reads as a number
NumericStrings == [s \in {"500", "0", "-5"} |->
                     IF s = "500" THEN 500 ELSE IF s = "0" THEN 0 ELSE 0 - 5]

\* Number(v): a number is itself, "" is 0, a numeric string its value, else NaN
NumberOf(v) ==
    IF v.t = "number" THEN [nan |-> FALSE, n |-> v.n]
    ELSE IF v.t = "string" /\ v.s = "" THEN [nan |-> FALSE, n |-> 0]
    ELSE IF v.t = "string" /\ v.s \in DOMAIN NumericStrings
    THEN [nan |-> FALSE, n |-> NumericStrings[v.s]]
    ELSE [nan |-> TRUE, n |-> 0]

\* body.targetAmount of POST /donation-campaigns
TargetInputs ==
    {JsNum(500), JsStr("500"), JsNum(0), JsUndefined, JsNum(0 - 5), JsStr("-5"),
     JsStr("0"), JsStr("abc")}

\* the text fields POST /donation-campaigns requires; "" stands for a missing one
TextFields == {"petName", "petImage", "lastDate", "description", "longDesc", "ownerEmail"}

\* a body with every field present
CampaignBody(ownerEmail, targetAmount) ==
    [petName |-> "rex", petImage |-> "rex.png", targetAmount |-> targetAmount,
     lastDate |-> "2030-01-01", description |-> "short", longDesc |-> "long",
     ownerEmail |-> ownerEmail]

\* req.body of POST /donation-campaigns: every target amount for every owner,
\* and a valid body with one text field missing
CampaignBodies ==
    {CampaignBody(o, t) : o \in Emails, t \in TargetInputs}
    \cup {[CampaignBody("u1", JsNum(500)) EXCEPT ![f] = ""] : f \in TextFields}

VARIABLES
    campaigns,       \* donationCampaignsCollection: _id -> document
    donations,       \* donationsCollection: _id -> document
    nextCampaignId,  \* the _id insertOne gives the next campaign
    nextDonationId,  \* the _id insertOne gives the next donation
    reqs,            \* per request in flight: position in its handler and locals
    res,             \* the response sent last: route and status code
    hist,            \* per donation ever inserted: its campaign, the increments
                     \* (incs) and decrements (decs) applied for it, the reversals
                     \* answered with success (oks), the campaign's donatedAmount
                     \* when it was inserted (before) and whether no other
                     \* donation's campaign write came since (clean)
    net              \* per campaign: amounts of the donations answered with
                     \* success minus amounts of the reversals answered with success

vars == <<campaigns, donations, nextCampaignId, nextDonationId, reqs, res, hist, net>>

\* ---- helpers ----
RECURSIVE SumAmounts(_, _)
SumAmounts(S, f) ==
    IF S = {} THEN 0
    ELSE LET x == CHOOSE y \in S : TRUE
         IN f[x].amount + SumAmounts(S \ {x}, f)

\* donations currently linked to campaign c (donation.donationId is the campaign id)
Linked(c) == {d \in DOMAIN donations : donations[d].donationId = c}
SumLinked(c) == SumAmounts(Linked(c), donations)

\* the donation read by findOne, before it is read
NoDonation == [donationId |-> 0, amount |-> 0]

\* what a listing handler holds between its two reads: the documents its
\* first find returned, the page and limit it computed, and (seen) the ids of
\* the collection that find read
NoListing == [found |-> <<>>, page |-> 0, limit |-> 0, seen |-> <<>>]

\* a request slot with no handler running: email is req.user.email, id the id
\* sent (campaign id for POST /donations, donation id for DELETE), paused the
\* pause flag of the campaign read by findOne
IdleReq ==
    [pc |-> "idle", email |-> "", id |-> 0, amount |-> 0, paused |-> "absent",
     donation |-> NoDonation, insertedId |-> 0, list |-> NoListing]

\* res.status(code).send(...)
Response(op, code) == [op |-> op, status |-> code]

Free(r) == reqs[r].pc = "idle"

\* nothing counts as true
TruthyNever(p) == FALSE

\* JS truthiness of a stored pause flag
Truthy(p) == p = "true"

\* !!paused of the owner's pause route
Coerce(p) == IF p = "true" THEN "true" ELSE "false"

\* { $set: { paused } } of the admin route: the driver stores undefined as null
AdminStored(p) == IF p = "absent" THEN "null" ELSE p

\* the pause flag read from a field the documents do not have
CampaignPausedWrongField(campaign) == FALSE

\* if (campaign.paused) of POST /donations
CampaignPaused(campaign) == Truthy(campaign.paused)

\* $set where $inc was meant: the stored amount is overwritten
SetDonatedAmount(camps, c, delta) ==
    IF c \in DOMAIN camps
    THEN [camps EXCEPT ![c].donatedAmount = delta]
    ELSE camps

\* { $inc: { donatedAmount: delta } } on the stored document
IncDonatedAmount(camps, c, delta) ==
    IF c \in DOMAIN camps
    THEN [camps EXCEPT ![c].donatedAmount = @ + delta]
    ELSE camps

\* updateOne's matchedCount for filter {_id: c}
MatchedCount(camps, c) == IF c \in DOMAIN camps THEN 1 ELSE 0

\* a campaign write for donation d changes the accrued amount every other
\* donation of campaign c was recorded against
Disturb(h, c, d) ==
    [x \in DOMAIN h |->
        IF x # d /\ h[x].oks = 0 /\ h[x].campaign = c
        THEN [h[x] EXCEPT !.clean = FALSE] ELSE h[x]]

\* a success response for an amount on campaign c
Bump(n, c, delta) == IF c \in DOMAIN n THEN [n EXCEPT ![c] = @ + delta] ELSE n

Init ==
    /\ campaigns = <<>>
    /\ donations = <<>>
    /\ nextCampaignId = 1
    /\ nextDonationId = 1
    /\ reqs = [r \in Procs |-> IdleReq]
    /\ res = Response("none", 0)
    /\ hist = <<>>
    /\ net = <<>>

\* ---- POST /donation-campaigns ----
\* if (!petName || !petImage || !targetAmount || ... || !ownerEmail)
MissingFields(body) ==
    \/ \E f \in TextFields : body[f] = ""
    \/ Falsy(body.targetAmount)

\* the campaign document built from the body; now is what new Date() reads.
\* Expiry date and descriptions are copied like petName and read by no route
\* modelled here
CampaignDoc(body, now) ==
    [petName |-> body.petName,
     petImage |-> body.petImage,
     targetAmount |-> NumberOf(body.targetAmount),
     ownerEmail |-> body.ownerEmail,
     paused |-> "absent",
     donatedAmount |-> 0,
     date |-> now]

\* validation, then insertOne(campaign); the clock is read as the number of
\* campaigns inserted so far, so a later campaign never has an earlier date
CreateCampaignWith(r, body) ==
    /\ Free(r)
    /\ IF MissingFields(body)
       THEN /\ res' = Response("create", 400)
            /\ UNCHANGED <<campaigns, nextCampaignId, net>>
       ELSE /\ nextCampaignId <= MaxCampaigns
            /\ campaigns' = (nextCampaignId :> CampaignDoc(body, nextCampaignId)) @@ campaigns
            /\ nextCampaignId' = nextCampaignId + 1
            /\ net' = (nextCampaignId :> 0) @@ net
            /\ res' = Response("create", 200)
    /\ UNCHANGED <<donations, nextDonationId, reqs, hist>>

\* the route called with a well-formed body of target 500, or with petName missing
CreateCampaign(r, fieldsPresent, ownerEmail) ==
    CreateCampaignWith(r, IF fieldsPresent
                          THEN CampaignBody(ownerEmail, JsNum(500))
                          ELSE [CampaignBody(ownerEmail, JsNum(500)) EXCEPT !.petName = ""])

\* ---- PATCH /donation-campaigns/pause/:id ----
SetPause(r, email, id, paused) ==
    /\ Free(r)
    /\ IF id \in DOMAIN campaigns /\ campaigns[id].ownerEmail = email
       THEN /\ campaigns' = [campaigns EXCEPT ![id].paused = Coerce(paused)]
            /\ res' = Response("pause", 200)
       ELSE /\ res' = Response("pause", 404)
            /\ UNCHANGED campaigns
    /\ UNCHANGED <<donations, nextCampaignId, nextDonationId, reqs, hist, net>>

\* ---- POST /donations ----
\* if (!donationId || !amount || !transactionId)
MissingDetails(body) ==
    body.donationId = 0 \/ body.amount = 0 \/ ~body.hasTransactionId

\* the existence check left out: a missing campaign is donated to all the same
RecordStartNoExistenceCheck(r, email, body) ==
    /\ Free(r)
    /\ LET id == body.donationId
       IN IF MissingDetails(body)
          THEN /\ res' = Response("record", 400)
               /\ UNCHANGED reqs
          ELSE IF id \in DOMAIN campaigns /\ CampaignPaused(campaigns[id])
          THEN /\ res' = Response("record", 403)
               /\ UNCHANGED reqs
          ELSE /\ reqs' = [reqs EXCEPT ![r] =
                    [IdleReq EXCEPT !.pc = "insert", !.email = email, !.id = id,
                                    !.amount = body.amount,
                                    !.paused = IF id \in DOMAIN campaigns
                                               THEN campaigns[id].paused
                                               ELSE "absent"]]
               /\ UNCHANGED res
    /\ UNCHANGED <<campaigns, donations, nextCampaignId, nextDonationId, hist, net>>

\* the donor taken from the body instead of the token
RecordStartDonorFromBody(r, email, body) ==
    /\ Free(r)
    /\ LET id == body.donationId
       IN IF MissingDetails(body)
          THEN /\ res' = Response("record", 400)
               /\ UNCHANGED reqs
          ELSE IF id \notin DOMAIN campaigns
          THEN /\ res' = Response("record", 404)
               /\ UNCHANGED reqs
          ELSE IF CampaignPaused(campaigns[id])
          THEN /\ res' = Response("record", 403)
               /\ UNCHANGED reqs
          ELSE /\ reqs' = [reqs EXCEPT ![r] =
                    [IdleReq EXCEPT !.pc = "insert", !.email = body.donorEmail, !.id = id,
                                    !.amount = body.amount,
                                    !.paused = campaigns[id].paused]]
               /\ UNCHANGED res
    /\ UNCHANGED <<campaigns, donations, nextCampaignId, nextDonationId, hist, net>>

\* validation, then findOne on the campaign and the pause check
RecordStart(r, email, body) ==
    /\ Free(r)
    /\ LET id == body.donationId
       IN IF MissingDetails(body)
          THEN /\ res' = Response("record", 400)
               /\ UNCHANGED reqs
          ELSE IF id \notin DOMAIN campaigns
          THEN /\ res' = Response("record", 404)
               /\ UNCHANGED reqs
          ELSE IF CampaignPaused(campaigns[id])
          THEN /\ res' = Response("record", 403)
               /\ UNCHANGED reqs
          ELSE /\ reqs' = [reqs EXCEPT ![r] =
                    [IdleReq EXCEPT !.pc = "insert", !.email = email, !.id = id,
                                    !.amount = body.amount,
                                    !.paused = campaigns[id].paused]]
               /\ UNCHANGED res
    /\ UNCHANGED <<campaigns, donations, nextCampaignId, nextDonationId, hist, net>>

\* donationsCollection.insertOne(donationDoc)
RecordInsert(r) ==
    /\ reqs[r].pc = "insert"
    /\ nextDonationId <= MaxDonations
    /\ donations' = (nextDonationId :> [donationId |-> reqs[r].id,
                                        amount |-> reqs[r].amount,
                                        donorEmail |-> reqs[r].email]) @@ donations
    /\ nextDonationId' = nextDonationId + 1
    /\ hist' = (nextDonationId :> [campaign |-> reqs[r].id,
                                   incs |-> 0, decs |-> 0, oks |-> 0,
                                   before |-> IF reqs[r].id \in DOMAIN campaigns
                                              THEN campaigns[reqs[r].id].donatedAmount
                                              ELSE 0,
                                   clean |-> TRUE]) @@ hist
    /\ reqs' = [reqs EXCEPT ![r].pc = "inc", ![r].email = "",
                            ![r].insertedId = nextDonationId]
    /\ UNCHANGED <<campaigns, nextCampaignId, res, net>>

\* the success response without the campaign update
RecordIncNoUpdate(r) ==
    /\ reqs[r].pc = "inc"
    /\ hist' = [hist EXCEPT ![reqs[r].insertedId].incs = @ + 1]
    /\ net' = Bump(net, reqs[r].id, reqs[r].amount)
    /\ res' = Response("record", 200)
    /\ reqs' = [reqs EXCEPT ![r] = IdleReq]
    /\ UNCHANGED <<campaigns, donations, nextCampaignId, nextDonationId>>

\* updateOne({_id}, {$inc: {donatedAmount: amount}}), then the success response
RecordInc(r) ==
    /\ reqs[r].pc = "inc"
    /\ LET c == reqs[r].id
           d == reqs[r].insertedId
           m == MatchedCount(campaigns, c)
       IN /\ campaigns' = IncDonatedAmount(campaigns, c, reqs[r].amount)
          /\ hist' = [Disturb(hist, c, d) EXCEPT ![d].incs = @ + m]
          /\ net' = Bump(net, c, reqs[r].amount)
          /\ res' = Response("record", 200)
    /\ reqs' = [reqs EXCEPT ![r] = IdleReq]
    /\ UNCHANGED <<donations, nextCampaignId, nextDonationId>>

\* ---- DELETE /donations/:donationId ----
\* the lookup by _id alone: the donor of the token is not compared
ReverseStartAnyDonor(r, email, id) ==
    /\ Free(r)
    /\ IF id \in DOMAIN donations
       THEN /\ reqs' = [reqs EXCEPT ![r] =
                    [IdleReq EXCEPT !.pc = "delete", !.id = id,
                                    !.donation = [donationId |-> donations[id].donationId,
                                                  amount |-> donations[id].amount]]]
            /\ UNCHANGED res
       ELSE /\ res' = Response("reverse", 404)
            /\ UNCHANGED reqs
    /\ UNCHANGED <<campaigns, donations, nextCampaignId, nextDonationId, hist, net>>

\* a lookup that finds nothing answered 403 instead of 404
ReverseStartForbidden(r, email, id) ==
    /\ Free(r)
    /\ IF id \in DOMAIN donations /\ donations[id].donorEmail = email
       THEN /\ reqs' = [reqs EXCEPT ![r] =
                    [IdleReq EXCEPT !.pc = "delete", !.id = id,
                                    !.donation = [donationId |-> donations[id].donationId,
                                                  amount |-> donations[id].amount]]]
            /\ UNCHANGED res
       ELSE /\ res' = Response("reverse", 403)
            /\ UNCHANGED reqs
    /\ UNCHANGED <<campaigns, donations, nextCampaignId, nextDonationId, hist, net>>

\* findOne({_id, donorEmail})
ReverseStart(r, email, id) ==
    /\ Free(r)
    /\ IF id \in DOMAIN donations /\ donations[id].donorEmail = email
       THEN /\ reqs' = [reqs EXCEPT ![r] =
                    [IdleReq EXCEPT !.pc = "delete", !.id = id,
                                    !.donation = [donationId |-> donations[id].donationId,
                                                  amount |-> donations[id].amount]]]
            /\ UNCHANGED res
       ELSE /\ res' = Response("reverse", 404)
            /\ UNCHANGED reqs
    /\ UNCHANGED <<campaigns, donations, nextCampaignId, nextDonationId, hist, net>>

\* deletedCount not looked at: the decrement follows whatever was deleted
ReverseDeleteUnchecked(r) ==
    /\ reqs[r].pc = "delete"
    /\ donations' = [x \in DOMAIN donations \ {reqs[r].id} |-> donations[x]]
    /\ reqs' = [reqs EXCEPT ![r].pc = "dec"]
    /\ UNCHANGED <<campaigns, nextCampaignId, nextDonationId, res, hist, net>>

\* deleteOne({_id}); deletedCount === 0 answers 500
ReverseDelete(r) ==
    /\ reqs[r].pc = "delete"
    /\ LET d == reqs[r].id
       IN IF d \in DOMAIN donations
          THEN /\ donations' = [x \in DOMAIN donations \ {d} |-> donations[x]]
               /\ reqs' = [reqs EXCEPT ![r].pc = "dec"]
               /\ UNCHANGED res
          ELSE /\ res' = Response("reverse", 500)
               /\ reqs' = [reqs EXCEPT ![r] = IdleReq]
               /\ UNCHANGED donations
    /\ UNCHANGED <<campaigns, nextCampaignId, nextDonationId, hist, net>>

\* the success response without the campaign update
ReverseDecSkipsCampaign(r) ==
    /\ reqs[r].pc = "dec"
    /\ hist' = [hist EXCEPT ![reqs[r].id].decs = @ + 1, ![reqs[r].id].oks = @ + 1,
                            ![reqs[r].id].before = 0]
    /\ net' = Bump(net, reqs[r].donation.donationId, 0 - reqs[r].donation.amount)
    /\ res' = Response("reverse", 200)
    /\ reqs' = [reqs EXCEPT ![r] = IdleReq]
    /\ UNCHANGED <<campaigns, donations, nextCampaignId, nextDonationId>>

\* a reversal that answers 404 when the update matches no campaign
ReverseDecRequiresCampaign(r) ==
    /\ reqs[r].pc = "dec"
    /\ LET d == reqs[r].id
           c == reqs[r].donation.donationId
           m == MatchedCount(campaigns, c)
       IN /\ campaigns' = IncDonatedAmount(campaigns, c, 0 - reqs[r].donation.amount)
          /\ hist' = [Disturb(hist, c, d) EXCEPT ![d].decs = @ + m, ![d].oks = @ + m,
                                                 ![d].before = 0]
          /\ net' = Bump(net, c, 0 - reqs[r].donation.amount)
          /\ res' = Response("reverse", IF m = 1 THEN 200 ELSE 404)
    /\ reqs' = [reqs EXCEPT ![r] = IdleReq]
    /\ UNCHANGED <<donations, nextCampaignId, nextDonationId>>

\* updateOne({_id: donation.donationId}, {$inc: {donatedAmount: -donation.amount}}),
\* then the success response
ReverseDec(r) ==
    /\ reqs[r].pc = "dec"
    /\ LET d == reqs[r].id
           c == reqs[r].donation.donationId
           m == MatchedCount(campaigns, c)
       IN /\ campaigns' = IncDonatedAmount(campaigns, c, 0 - reqs[r].donation.amount)
          /\ hist' = [Disturb(hist, c, d) EXCEPT ![d].decs = @ + m, ![d].oks = @ + 1,
                                                 ![d].before = 0]
          /\ net' = Bump(net, c, 0 - reqs[r].donation.amount)
          /\ res' = Response("reverse", 200)
    /\ reqs' = [reqs EXCEPT ![r] = IdleReq]
    /\ UNCHANGED <<donations, nextCampaignId, nextDonationId>>

Next ==
    \/ \E r \in Procs, f \in BOOLEAN, o \in Emails : CreateCampaign(r, f, o)
    \/ \E r \in Procs, e \in Emails, c \in CampaignIds, p \in PausedInputs : SetPause(r, e, c, p)
    \/ \E r \in Procs, e \in Emails, b \in DonationBodies : RecordStart(r, e, b)
    \/ \E r \in Procs : RecordInsert(r)
    \/ \E r \in Procs : RecordInc(r)
    \/ \E r \in Procs, e \in Emails, d \in DonationIds : ReverseStart(r, e, d)
    \/ \E r \in Procs : ReverseDelete(r)
    \/ \E r \in Procs : ReverseDec(r)

Spec == Init /\ [][Next]_vars

\* ---- the administrator's routes ----
\* verifyAdmin: the user of the token must have role "admin"
VerifyAdmin(email) == email \in Admins

\* PATCH /admin/campaigns/toggle-pause/:id
AdminTogglePause(r, email, id, paused) ==
    /\ Free(r)
    /\ IF ~VerifyAdmin(email)
       THEN /\ res' = Response("adminPause", 403)
            /\ UNCHANGED campaigns
       ELSE /\ campaigns' = IF id \in DOMAIN campaigns
                            THEN [campaigns EXCEPT ![id].paused = AdminStored(paused)]
                            ELSE campaigns
            /\ res' = Response("adminPause", 200)
    /\ UNCHANGED <<donations, nextCampaignId, nextDonationId, reqs, hist, net>>

\* DELETE /admin/campaigns/:id
AdminDeleteCampaign(r, email, id) ==
    /\ Free(r)
    /\ IF ~VerifyAdmin(email)
       THEN /\ res' = Response("adminDelete", 403)
            /\ UNCHANGED <<campaigns, net>>
       ELSE /\ campaigns' = [c \in DOMAIN campaigns \ {id} |-> campaigns[c]]
            /\ net' = [c \in DOMAIN net \ {id} |-> net[c]]
            /\ res' = Response("adminDelete", 200)
    /\ UNCHANGED <<donations, nextCampaignId, nextDonationId, reqs, hist>>

NextAdmin ==
    \/ Next
    \/ \E r \in Procs, e \in Emails, c \in CampaignIds, p \in PausedInputs :
          AdminTogglePause(r, e, c, p)
    \/ \E r \in Procs, e \in Emails, c \in CampaignIds : AdminDeleteCampaign(r, e, c)

SpecAdmin == Init /\ [][NextAdmin]_vars

\* ---- storage failures ----
\* the storage call a handler is waiting for throws: the catch block answers 500
\* and nothing the handler wrote before is undone
RouteOf(pc) == IF pc \in {"insert", "inc"} THEN "record" ELSE "reverse"

StorageCallThrows(r) ==
    /\ ~Free(r)
    /\ res' = Response(RouteOf(reqs[r].pc), 500)
    /\ reqs' = [reqs EXCEPT ![r] = IdleReq]
    /\ UNCHANGED <<campaigns, donations, nextCampaignId, nextDonationId, hist, net>>

\* the first storage call of a handler throws
FirstCallThrows(r, op) ==
    /\ Free(r)
    /\ res' = Response(op, 500)
    /\ UNCHANGED <<campaigns, donations, nextCampaignId, nextDonationId, reqs, hist, net>>

NextFail ==
    \/ Next
    \/ \E r \in Procs : StorageCallThrows(r)
    \/ \E r \in Procs, op \in {"create", "pause", "record", "reverse"} : FirstCallThrows(r, op)

SpecFail == Init /\ [][NextFail]_vars

\* ---- PATCH /donation-campaigns/:id ----
\* req.body, handed to $set as it is: the field names are those of the stored
\* document, the values are stored unconverted
UpdateBodies ==
    {[targetAmount |-> [nan |-> FALSE, n |-> 500]],
     [targetAmount |-> [nan |-> FALSE, n |-> 700]],
     [donatedAmount |-> 0],
     [paused |-> "true"],
     [ownerEmail |-> "u2"]}

\* { $set: updateData } on a document
SetFields(doc, updateData) ==
    [f \in DOMAIN doc |-> IF f \in DOMAIN updateData THEN updateData[f] ELSE doc[f]]

\* updateOne({_id}, {$set: updateData}); modifiedCount === 1 answers success,
\* anything else 404.  The email of the token is not looked at.
UpdateFields(r, email, id, updateData) ==
    /\ Free(r)
    /\ IF id \in DOMAIN campaigns /\ SetFields(campaigns[id], updateData) # campaigns[id]
       THEN /\ campaigns' = [campaigns EXCEPT ![id] = SetFields(@, updateData)]
            /\ res' = Response("update", 200)
       ELSE /\ res' = Response("update", 404)
            /\ UNCHANGED campaigns
    /\ UNCHANGED <<donations, nextCampaignId, nextDonationId, reqs, hist, net>>

\* the owner's routes that write a campaign's fields, and the recording of donations
NextFields ==
    \/ \E r \in Procs, f \in BOOLEAN, o \in Emails : CreateCampaign(r, f, o)
    \/ \E r \in Procs, e \in Emails, c \in CampaignIds, p \in PausedInputs : SetPause(r, e, c, p)
    \/ \E r \in Procs, e \in Emails, b \in DonationBodies : RecordStart(r, e, b)
    \/ \E r \in Procs : RecordInsert(r)
    \/ \E r \in Procs : RecordInc(r)
    \/ \E r \in Procs, e \in Emails, c \in CampaignIds, b \in UpdateBodies :
          UpdateFields(r, e, c, b)

SpecFields == Init /\ [][NextFields]_vars

\* ---- request bodies as a client may send them ----
\* req.body of POST /donations with a negative amount as well
InputDonationBodies ==
    DonationBodies
    \cup [donationId : {1}, amount : {0 - 1}, hasTransactionId : BOOLEAN]

NextInputs ==
    \/ \E r \in Procs, b \in CampaignBodies : CreateCampaignWith(r, b)
    \/ \E r \in Procs, e \in Emails, b \in InputDonationBodies : RecordStart(r, e, b)
    \/ \E r \in Procs : RecordInsert(r)
    \/ \E r \in Procs : RecordInc(r)

SpecInputs == Init /\ [][NextInputs]_vars

\* ---- the routes without a try/catch ----
\* GET /donation-campaigns/:id
GetCampaign(r, id) ==
    /\ Free(r)
    /\ res' = Response("getCampaign", IF id \in DOMAIN campaigns THEN 200 ELSE 404)
    /\ UNCHANGED <<campaigns, donations, nextCampaignId, nextDonationId, reqs, hist, net>>

\* GET /recommended-campaigns/:currentId
Recommend(r, currentId) ==
    /\ Free(r)
    /\ res' = Response("recommend", 200)
    /\ UNCHANGED <<campaigns, donations, nextCampaignId, nextDonationId, reqs, hist, net>>

UnguardedRoutes == {"getCampaign", "recommend", "adminPause", "adminDelete"}

\* new ObjectId(id) throws on a malformed id, or the storage call rejects, in an
\* async handler that catches nothing.  What the client then gets depends on
\* the Express the server runs on: a version that does not watch the handler's
\* promise sends nothing (status 0 here), one that does answers 500 from its
\* default error handler.  Nothing was written before the throw.
UnguardedThrows(r, email, op, answered) ==
    /\ Free(r)
    /\ op \in {"adminPause", "adminDelete"} => VerifyAdmin(email)
    /\ res' = [op |-> op, status |-> IF answered THEN 500 ELSE 0]
    /\ UNCHANGED <<campaigns, donations, nextCampaignId, nextDonationId, reqs, hist, net>>

\* the campaign routes, each with the failure of its first storage call; the
\* later storage calls of the donation routes fail under SpecFail
NextBoundary ==
    \/ \E r \in Procs, f \in BOOLEAN, o \in Emails : CreateCampaign(r, f, o)
    \/ \E r \in Procs, e \in Emails, c \in CampaignIds, p \in PausedInputs : SetPause(r, e, c, p)
    \/ \E r \in Procs, op \in {"create", "pause", "record", "reverse"} : FirstCallThrows(r, op)
    \/ \E r \in Procs, e \in Emails, c \in CampaignIds, p \in PausedInputs :
          AdminTogglePause(r, e, c, p)
    \/ \E r \in Procs, e \in Emails, c \in CampaignIds : AdminDeleteCampaign(r, e, c)
    \/ \E r \in Procs, c \in CampaignIds : GetCampaign(r, c)
    \/ \E r \in Procs, c \in CampaignIds : Recommend(r, c)
    \/ \E r \in Procs, e \in Emails, op \in UnguardedRoutes, answered \in BOOLEAN :
          UnguardedThrows(r, e, op, answered)

SpecBoundary == Init /\ [][NextBoundary]_vars

\* ---- GET /donation-campaigns ----
\* req.query.page and req.query.limit; 0 stands for a parameter that is absent
\* or reads as 0, which parseInt(...) || default replaces
PageInputs == 0..2
LimitInputs == 0..2
DefaultPage == 1
DefaultLimit == 10

\* parseInt(q) || fallback
ParseIntOr(q, fallback) == IF q = 0 THEN fallback ELSE q

\* skipping a whole page too many
SkipOfNextPage(page, limit) == page * limit

\* const skip = (page - 1) * limit
SkipOf(page, limit) == (page - 1) * limit

\* .sort({ date: -1 }): the orders of the collection's ids with dates not
\* increasing; documents of equal date come in any order
DateDescending(coll) ==
    LET n == Cardinality(DOMAIN coll)
    IN {o \in [1..n -> DOMAIN coll] :
          /\ \A i, j \in 1..n : i # j => o[i] # o[j]
          /\ \A i, j \in 1..n : i < j => coll[o[i]].date >= coll[o[j]].date}

\* .skip(k) and .limit(n) of a cursor
Skip(seq, k) == IF k >= Len(seq) THEN <<>> ELSE SubSeq(seq, k + 1, Len(seq))
Limit(seq, n) == IF n >= Len(seq) THEN seq ELSE SubSeq(seq, 1, n)

\* Math.ceil(total / limit)
Ceil(total, limit) == (total + limit - 1) \div limit

\* find({}).sort({date: -1}).skip(skip).limit(limit).toArray()
ListFind(r, page, limit) ==
    /\ Free(r)
    /\ LET p == ParseIntOr(page, DefaultPage)
           l == ParseIntOr(limit, DefaultLimit)
       IN \E order \in DateDescending(campaigns) :
             reqs' = [reqs EXCEPT ![r] =
                 [IdleReq EXCEPT !.pc = "count",
                                 !.list = [found |-> Limit(Skip(order, SkipOf(p, l)), l),
                                           page |-> p, limit |-> l,
                                           seen |-> campaigns]]]
    /\ UNCHANGED <<campaigns, donations, nextCampaignId, nextDonationId, res, hist, net>>

\* countDocuments(), then the response
ListCount(r) ==
    /\ reqs[r].pc = "count"
    /\ LET total == Cardinality(DOMAIN campaigns)
       IN res' = [op |-> "list", status |-> 200,
                  campaigns |-> reqs[r].list.found,
                  total |-> total,
                  page |-> reqs[r].list.page,
                  totalPages |-> Ceil(total, reqs[r].list.limit)]
    /\ reqs' = [reqs EXCEPT ![r] = IdleReq]
    /\ UNCHANGED <<campaigns, donations, nextCampaignId, nextDonationId, hist, net>>

\* the collections the listing is run on: up to MaxListed campaigns, of equal
\* or different dates, never paused or paused
ListedDocs ==
    {[CampaignDoc(CampaignBody("u1", JsNum(500)), d) EXCEPT !.paused = p] :
        d \in 1..2, p \in {"absent", "true"}}

ListedCollections ==
    UNION {[1..n -> ListedDocs] : n \in 0..MaxListed}

InitList ==
    /\ campaigns \in ListedCollections
    /\ donations = <<>>
    /\ nextCampaignId = Cardinality(DOMAIN campaigns) + 1
    /\ nextDonationId = 1
    /\ reqs = [r \in Procs |-> IdleReq]
    /\ res = Response("none", 0)
    /\ hist = <<>>
    /\ net = [c \in DOMAIN campaigns |-> 0]

NextList ==
    \/ \E r \in Procs, f \in BOOLEAN, o \in Emails : CreateCampaign(r, f, o)
    \/ \E r \in Procs, e \in Emails, c \in CampaignIds : AdminDeleteCampaign(r, e, c)
    \/ \E r \in Procs, page \in PageInputs, limit \in LimitInputs : ListFind(r, page, limit)
    \/ \E r \in Procs : ListCount(r)

SpecList == InitList /\ [][NextList]_vars

\* ---- GET /donations/my ----
\* the ids of a collection in the order a find returns them
Ascending(ids) ==
    [i \in 1..Cardinality(ids) |->
        CHOOSE x \in ids : Cardinality({y \in ids : y < x}) = i - 1]

\* the find without the filter on the donor
MyFindEveryDonor(r, email) ==
    /\ Free(r)
    /\ LET order == Ascending(DOMAIN donations)
       IN reqs' = [reqs EXCEPT ![r] =
             [IdleReq EXCEPT !.pc = "enrich", !.email = email,
                             !.list = [NoListing EXCEPT
                                 !.found = [k \in 1..Len(order) |->
                                              [_id |-> order[k],
                                               donationId |-> donations[order[k]].donationId,
                                               amount |-> donations[order[k]].amount,
                                               donorEmail |-> donations[order[k]].donorEmail]],
                                 !.seen = donations]]]
    /\ UNCHANGED <<campaigns, donations, nextCampaignId, nextDonationId, res, hist, net>>

\* donationsCollection.find({ donorEmail: userEmail }).toArray()
MyFind(r, email) ==
    /\ Free(r)
    /\ LET order == Ascending({d \in DOMAIN donations : donations[d].donorEmail = email})
       IN reqs' = [reqs EXCEPT ![r] =
             [IdleReq EXCEPT !.pc = "enrich", !.email = email,
                             !.list = [NoListing EXCEPT
                                 !.found = [k \in 1..Len(order) |->
                                              [_id |-> order[k],
                                               donationId |-> donations[order[k]].donationId,
                                               amount |-> donations[order[k]].amount,
                                               donorEmail |-> donations[order[k]].donorEmail]],
                                 !.seen = donations]]]
    /\ UNCHANGED <<campaigns, donations, nextCampaignId, nextDonationId, res, hist, net>>

\* campaign?.petName || 'Unknown' and campaign?.petImage || '' for the campaign
\* found under the donation's donationId, if any
Enriched(donation, camps) ==
    LET c == donation.donationId
        found == c \in DOMAIN camps
    IN [_id |-> donation._id,
        amount |-> donation.amount,
        donorEmail |-> donation.donorEmail,
        petName |-> IF found /\ camps[c].petName # "" THEN camps[c].petName ELSE "Unknown",
        petImage |-> IF found THEN camps[c].petImage ELSE ""]

\* find({ _id: { $in: campaignIds } }), the map over the donations, res.send
MyEnrich(r) ==
    /\ reqs[r].pc = "enrich"
    /\ res' = [op |-> "myDonations", status |-> 200,
               entries |-> [k \in 1..Len(reqs[r].list.found) |->
                              Enriched(reqs[r].list.found[k], campaigns)]]
    /\ reqs' = [reqs EXCEPT ![r] = IdleReq]
    /\ UNCHANGED <<campaigns, donations, nextCampaignId, nextDonationId, hist, net>>

\* donations recorded and reversed, campaigns deleted, and the donor's listing
NextMine ==
    \/ \E r \in Procs, f \in BOOLEAN, o \in Emails : CreateCampaign(r, f, o)
    \/ \E r \in Procs, e \in Emails, b \in DonationBodies : RecordStart(r, e, b)
    \/ \E r \in Procs : RecordInsert(r)
    \/ \E r \in Procs : RecordInc(r)
    \/ \E r \in Procs, e \in Emails, d \in DonationIds : ReverseStart(r, e, d)
    \/ \E r \in Procs : ReverseDelete(r)
    \/ \E r \in Procs : ReverseDec(r)
    \/ \E r \in Procs, e \in Emails, c \in CampaignIds : AdminDeleteCampaign(r, e, c)
    \/ \E r \in Procs, e \in Emails : MyFind(r, e)
    \/ \E r \in Procs : MyEnrich(r)

SpecMine == Init /\ [][NextMine]_vars

\* ---- POST /donations with a donor named in the body ----
\* req.body with a donorEmail field, which the handler does not read: every
\* body names u2 as the donor, whoever sends it
DonorBodies ==
    [donationId : CampaignIds, amount : {1, 2}, hasTransactionId : {TRUE},
     donorEmail : {"u2"}]

NextDonor ==
    \/ \E r \in Procs, f \in BOOLEAN, o \in Emails : CreateCampaign(r, f, o)
    \/ \E r \in Procs, e \in Emails, b \in DonorBodies : RecordStart(r, e, b)
    \/ \E r \in Procs : RecordInsert(r)
    \/ \E r \in Procs : RecordInc(r)
    \/ \E r \in Procs, e \in Emails, d \in DonationIds : ReverseStart(r, e, d)
    \/ \E r \in Procs : ReverseDelete(r)
    \/ \E r \in Procs : ReverseDec(r)

SpecDonor == Init /\ [][NextDonor]_vars

\* ---- GET /admin/all-donations ----
\* find({ paused: { $in: [true, false] }, ownerEmail: { $exists: true } })
AdminListed(camps) ==
    {c \in DOMAIN camps : camps[c].paused \in {"true", "false"} /\ camps[c].ownerEmail # ""}

AdminListAll(r, email) ==
    /\ Free(r)
    /\ res' = IF VerifyAdmin(email)
              THEN [op |-> "adminList", status |-> 200, campaigns |-> AdminListed(campaigns)]
              ELSE Response("adminList", 403)
    /\ UNCHANGED <<campaigns, donations, nextCampaignId, nextDonationId, reqs, hist, net>>

\* the routes that create, pause and delete campaigns, the public listing and
\* the administrator's listing
NextAdminList ==
    \/ \E r \in Procs, f \in BOOLEAN, o \in Emails : CreateCampaign(r, f, o)
    \/ \E r \in Procs, e \in Emails, c \in CampaignIds, p \in PausedInputs : SetPause(r, e, c, p)
    \/ \E r \in Procs, e \in Emails, c \in CampaignIds, p \in PausedInputs :
          AdminTogglePause(r, e, c, p)
    \/ \E r \in Procs, e \in Emails, c \in CampaignIds : AdminDeleteCampaign(r, e, c)
    \/ \E r \in Procs, page \in PageInputs, limit \in LimitInputs : ListFind(r, page, limit)
    \/ \E r \in Procs : ListCount(r)
    \/ \E r \in Procs, e \in Emails : AdminListAll(r, e)

SpecAdminList == Init /\ [][NextAdminList]_vars

\* ======================= the claims =======================

\* no POST /donations and no DELETE /donations/:donationId is between two of its
\* storage calls
Quiescent == \A r \in Procs : reqs[r].pc = "idle"

\* C1: whenever no recordDonation and no reverseDonation is in progress, every
\* campaign's donatedAmount equals the sum of the amounts of the donation
\* documents linked to it.
C1_AccruedEqualsLedger ==
    Quiescent =>
        \A c \in DOMAIN campaigns : campaigns[c].donatedAmount = SumLinked(c)

\* a live donation next to a reversed one, nothing in flight
C1_Witness ==
    /\ Quiescent
    /\ \E c \in DOMAIN campaigns : Linked(c) # {} /\ campaigns[c].donatedAmount >= 1
    /\ \E d \in DOMAIN hist : hist[d].oks = 1

\* C2: whatever the interleaving of the storage steps of concurrent
\* recordDonation calls, a campaign's donatedAmount is the sum of the amounts of
\* the donations answered with success (less the reversals answered with
\* success): no increment is lost.
C2_NoLostIncrement ==
    \A c \in DOMAIN campaigns : campaigns[c].donatedAmount = net[c]

\* a second donation's increment landed between this request's insert and its
\* own increment
C2_Witness ==
    \E r \in Procs :
        /\ reqs[r].pc = "inc"
        /\ ~hist[reqs[r].insertedId].clean
        /\ \E d \in DOMAIN hist :
              /\ d # reqs[r].insertedId
              /\ hist[d].campaign = reqs[r].id
              /\ hist[d].incs = 1
              /\ hist[d].oks = 0

\* C3 (as claimed): a success response of recordDonation means the campaign's
\* donatedAmount was incremented for the inserted donation, and a success
\* response of reverseDonation means it was decremented for the deleted one,
\* also when an administrator deletes the campaign in between.
C3_SuccessMeansBothCommitted ==
    [][\A r \in Procs :
          /\ (reqs[r].pc = "inc" /\ reqs'[r].pc = "idle" /\ res' = Response("record", 200))
                => /\ reqs[r].insertedId \in DOMAIN hist'
                   /\ hist'[reqs[r].insertedId].incs = 1
          /\ (reqs[r].pc = "dec" /\ reqs'[r].pc = "idle" /\ res' = Response("reverse", 200))
                => /\ reqs[r].id \notin DOMAIN donations'
                   /\ hist'[reqs[r].id].decs = hist[reqs[r].id].decs + 1]_vars

\* C4 (as claimed): when the campaign write throws after the donation write
\* succeeded, the failure is reported with the donation write undone or the
\* campaign write made after all.
C4_FailureLeavesNoPartialWrite ==
    [][\A r \in Procs :
          /\ (reqs[r].pc = "inc" /\ reqs'[r].pc = "idle" /\ res' = Response("record", 500))
                => \/ reqs[r].insertedId \notin DOMAIN donations'
                   \/ hist'[reqs[r].insertedId].incs = 1
          /\ (reqs[r].pc = "dec" /\ reqs'[r].pc = "idle" /\ res' = Response("reverse", 500))
                => \/ reqs[r].id \in DOMAIN donations'
                   \/ hist'[reqs[r].id].decs = hist[reqs[r].id].decs + 1]_vars

\* C5: a recordDonation that passes validation and whose existence check reads
\* the campaign with its stored pause flag true answers 403, inserts no donation
\* and leaves every donatedAmount as it was.
C5_PausedCampaignRejects ==
    [][\A r \in Procs, e \in Emails, b \in DonationBodies :
          (/\ RecordStart(r, e, b)
           /\ ~MissingDetails(b)
           /\ b.donationId \in DOMAIN campaigns
           /\ campaigns[b.donationId].paused = "true")
          => /\ res' = Response("record", 403)
             /\ UNCHANGED <<campaigns, donations, reqs, nextDonationId>>]_vars

\* a donation refused on a paused campaign that holds money
C5_Witness ==
    /\ res = Response("record", 403)
    /\ \E c \in DOMAIN campaigns :
          campaigns[c].paused = "true" /\ campaigns[c].donatedAmount >= 1

\* C6 (as claimed): no donation is inserted and no increment applied at a moment
\* when the campaign's stored pause flag is true.
C6_NoAcceptanceWhilePaused ==
    [][\A r \in Procs :
          (RecordInsert(r) \/ RecordInc(r))
          => ~(reqs[r].id \in DOMAIN campaigns /\ campaigns[reqs[r].id].paused = "true")]_vars

\* C6 (amended): a donation is inserted and an increment applied only by a
\* recordDonation whose own existence check read the pause flag as not true.
C6_AcceptedOnlyIfReadUnpaused ==
    \A r \in Procs : reqs[r].pc \in {"insert", "inc"} => reqs[r].paused # "true"

\* a recordDonation past its check while the stored flag has become true
C6_Witness ==
    \E r \in Procs :
        /\ reqs[r].pc \in {"insert", "inc"}
        /\ reqs[r].id \in DOMAIN campaigns
        /\ campaigns[reqs[r].id].paused = "true"

\* C7: whatever the number and interleaving of reverseDonation attempts on one
\* donation by its donor, the campaign is decremented for it at most once, at
\* most one attempt is answered with success, and once the donation is gone and
\* no attempt is left before its decrement, exactly once.
C7_DecrementedExactlyOnce ==
    \A d \in DOMAIN hist :
        /\ hist[d].decs <= 1
        /\ hist[d].oks <= 1
        /\ (d \notin DOMAIN donations /\ \A r \in Procs : ~(reqs[r].pc = "dec" /\ reqs[r].id = d))
              => hist[d].decs = 1 /\ hist[d].oks = 1

\* the second of two overlapping attempts has just failed after the first succeeded
C7_Witness ==
    /\ Quiescent
    /\ res = Response("reverse", 500)
    /\ \E d \in DOMAIN hist : hist[d].oks = 1 /\ hist[d].decs = 1 /\ hist[d].incs = 1

\* the donation document with _id d has been deleted
Deleted(d) == d \in DOMAIN hist /\ d \notin DOMAIN donations

C9_RoundTripRestores ==
    [][\A r \in Procs :
          (/\ ReverseDec(r)
           /\ hist[reqs[r].id].incs = 1
           /\ hist[reqs[r].id].clean)
          => /\ reqs[r].donation.donationId \in DOMAIN campaigns'
             /\ campaigns'[reqs[r].donation.donationId].donatedAmount = hist[reqs[r].id].before
             /\ reqs[r].id \notin DOMAIN donations']_vars

\* an undisturbed donation has been reversed on a campaign that held money before it
C9_Witness ==
    /\ res = Response("reverse", 200)
    /\ \E d \in DOMAIN hist :
          /\ hist[d].oks = 1 /\ hist[d].incs = 1 /\ hist[d].clean
          /\ hist[d].campaign \in DOMAIN campaigns
          /\ campaigns[hist[d].campaign].donatedAmount >= 1
          /\ Linked(hist[d].campaign) # {}

\* C10: a recordDonation that passes validation and names a campaign id no
\* campaign has answers 404, inserts no donation and changes no donatedAmount.
C10_MissingCampaignRejects ==
    [][\A r \in Procs, e \in Emails, b \in DonationBodies :
          (/\ RecordStart(r, e, b)
           /\ ~MissingDetails(b)
           /\ b.donationId \notin DOMAIN campaigns)
          => /\ res' = Response("record", 404)
             /\ UNCHANGED <<campaigns, donations, reqs, nextDonationId>>]_vars

\* a donation to a missing campaign refused while another campaign holds money
C10_Witness ==
    /\ res = Response("record", 404)
    /\ \E c \in DOMAIN campaigns : campaigns[c].donatedAmount >= 1

\* C11: a reverseDonation of an existing donation by a caller whose email is
\* not the donation's donorEmail answers 404, starts no delete and leaves the
\* donation and every campaign as they were.
C11_OnlyDonorReverses ==
    [][\A r \in Procs, e \in Emails, d \in DonationIds :
          (/\ ReverseStart(r, e, d)
           /\ d \in DOMAIN donations
           /\ donations[d].donorEmail # e)
          => /\ res' = Response("reverse", 404)
             /\ UNCHANGED <<campaigns, donations, reqs>>]_vars

\* a reversal refused while the donation it names is in the ledger, counted in
\* its campaign, and no reversal is under way
C11_Witness ==
    /\ Quiescent
    /\ res = Response("reverse", 404)
    /\ \E d \in DOMAIN donations :
          /\ hist[d].incs = 1
          /\ donations[d].donationId \in DOMAIN campaigns
          /\ campaigns[donations[d].donationId].donatedAmount >= donations[d].amount

\* C12: updateFields merges only the permitted fields: donatedAmount changes only
\* through the recording and the reversal of donations, and an update of fields
\* leaves donatedAmount, paused and the owner as they were.
C12_UpdateKeepsProtectedFields ==
    [][\A c \in DOMAIN campaigns \cap DOMAIN campaigns' :
          /\ campaigns'[c].donatedAmount # campaigns[c].donatedAmount
                => \E r \in Procs : RecordInc(r) \/ ReverseDec(r)
          /\ \A r \in Procs, e \in Emails, b \in UpdateBodies :
                UpdateFields(r, e, c, b)
                => /\ campaigns'[c].donatedAmount = campaigns[c].donatedAmount
                   /\ campaigns'[c].paused = campaigns[c].paused
                   /\ campaigns'[c].ownerEmail = campaigns[c].ownerEmail]_vars

\* C13: paused changes only by setPause of the owner or by the administrator's
\* route called by an administrator; setPause by anyone else fails and changes
\* nothing.
C13_PausedChangesOnlyByOwnerOrAdmin ==
    [][\A c \in DOMAIN campaigns \cap DOMAIN campaigns' :
          /\ campaigns'[c].paused # campaigns[c].paused
                => \/ \E r \in Procs, p \in PausedInputs :
                         SetPause(r, campaigns[c].ownerEmail, c, p)
                   \/ \E r \in Procs, e \in Admins, p \in PausedInputs :
                         AdminTogglePause(r, e, c, p)
          /\ \A r \in Procs, e \in Emails, p \in PausedInputs :
                (SetPause(r, e, c, p) /\ e # campaigns[c].ownerEmail)
                => /\ res' = Response("pause", 404)
                   /\ UNCHANGED campaigns]_vars

\* C14: updateFields succeeds only for the owner of the campaign; called by
\* anyone else it fails and leaves the campaign unchanged.
C14_OnlyOwnerUpdates ==
    [][\A r \in Procs, e \in Emails, c \in DOMAIN campaigns, b \in UpdateBodies :
          (UpdateFields(r, e, c, b) /\ e # campaigns[c].ownerEmail)
          => /\ res'.status # 200
             /\ UNCHANGED campaigns]_vars

\* C15: recordDonation with an amount that is not positive, or without a
\* transaction reference, is answered 400, starts no insert and changes neither
\* the donations nor any campaign.
C15_BadDonationRejected ==
    [][\A r \in Procs, e \in Emails, b \in InputDonationBodies :
          (RecordStart(r, e, b) /\ (b.amount <= 0 \/ ~b.hasTransactionId))
          => /\ res' = Response("record", 400)
             /\ UNCHANGED <<campaigns, donations, reqs>>]_vars

\* C16: a campaign persisted by a successful createCampaign has accrued amount
\* 0 and the stored pause flag false.
C16_CreatedUnpausedAtZero ==
    [][\A r \in Procs, b \in CampaignBodies :
          (CreateCampaignWith(r, b) /\ res'.status = 200)
          => /\ nextCampaignId \in DOMAIN campaigns'
             /\ campaigns'[nextCampaignId].donatedAmount = 0
             /\ campaigns'[nextCampaignId].paused = "false"]_vars

\* C17: createCampaign is answered 400 and persists nothing whenever a
\* required field is missing or the target amount does not coerce to a
\* positive number.
C17_BadCampaignRejected ==
    [][\A r \in Procs, b \in CampaignBodies :
          (/\ CreateCampaignWith(r, b)
           /\ \/ \E f \in TextFields : b[f] = ""
              \/ b.targetAmount.t = "undefined"
              \/ NumberOf(b.targetAmount).nan
              \/ NumberOf(b.targetAmount).n <= 0)
          => /\ res' = Response("create", 400)
             /\ UNCHANGED <<campaigns, nextCampaignId>>]_vars

\* C18: setPause on a campaign id that does not exist is answered 404 and
\* changes no state, on the owner's route and on the administrator's route.
C18_PauseOfMissingIsNotFound ==
    [][\A r \in Procs, e \in Emails, c \in CampaignIds \ DOMAIN campaigns,
         p \in PausedInputs :
          /\ SetPause(r, e, c, p)
                => /\ res' = Response("pause", 404)
                   /\ UNCHANGED <<campaigns, donations>>
          /\ (AdminTogglePause(r, e, c, p) /\ VerifyAdmin(e))
                => /\ res' = Response("adminPause", 404)
                   /\ UNCHANGED <<campaigns, donations>>]_vars

\* C19: in every reachable state, intermediate states of requests in flight
\* included, every campaign's accrued amount is at least 0.
C19_AccruedNeverNegative ==
    \A c \in DOMAIN campaigns : campaigns[c].donatedAmount >= 0

\* the amounts of the donations to campaign c that are inserted and whose
\* increment has not run yet
RECURSIVE PendingIncrements(_, _)
PendingIncrements(c, procs) ==
    IF procs = {} THEN 0
    ELSE LET r == CHOOSE x \in procs : TRUE
         IN (IF reqs[r].pc = "inc" /\ reqs[r].id = c THEN reqs[r].amount ELSE 0)
            + PendingIncrements(c, procs \ {r})

\* C19 as amended: the accrued amount together with the increments still to
\* come is at least 0 in every reachable state, so the accrued amount is at
\* least 0 whenever no recordDonation on the campaign is between its insert and
\* its increment.
C19_AccruedWithPendingNeverNegative ==
    \A c \in DOMAIN campaigns :
        campaigns[c].donatedAmount + PendingIncrements(c, Procs) >= 0

\* a reversal has run between a donation's insert and its increment
C19_Witness ==
    \E c \in DOMAIN campaigns, r \in Procs :
        /\ campaigns[c].donatedAmount < 0
        /\ reqs[r].pc = "inc" /\ reqs[r].id = c
        /\ reqs[r].insertedId \notin DOMAIN donations
        /\ hist[reqs[r].insertedId].decs = 1

\* C20: whatever the input, the malformed id and the failing storage call
\* included, every request to a campaign or donation route is answered with a
\* status code.
C20_EveryRequestAnswered ==
    res.op # "none" => res.status \in {200, 400, 403, 404, 500}

\* C21: updateFields on the id of an existing campaign reports success, also
\* when every supplied value equals the stored one, and reports 404 only when
\* no campaign has that id.
C21_UpdateOfExistingSucceeds ==
    [][\A r \in Procs, e \in Emails, c \in CampaignIds, b \in UpdateBodies :
          UpdateFields(r, e, c, b)
          => /\ c \in DOMAIN campaigns => res' = Response("update", 200)
             /\ c \notin DOMAIN campaigns => res' = Response("update", 404)]_vars

\* C22: listCampaigns(page, limit) returns exactly the campaigns at positions
\* (page-1)*limit+1 .. page*limit of all campaigns in an order of creation date
\* descending, paused or not, with total the number of all campaigns and
\* totalPages = ceil(total / limit).  The page is of the collection the find
\* read, total of the collection countDocuments read.
C22_PageOfDateDescending ==
    [][\A r \in Procs :
          ListCount(r)
          => LET l == reqs[r].list
                 first == (l.page - 1) * l.limit + 1
                 last == l.page * l.limit
             IN /\ \E order \in DateDescending(l.seen) :
                      LET positions == {i \in 1..Len(order) : first <= i /\ i <= last}
                      IN /\ Len(res'.campaigns) = Cardinality(positions)
                         /\ \A k \in 1..Len(res'.campaigns) :
                               res'.campaigns[k] = order[first + k - 1]
                /\ res'.total = Cardinality(DOMAIN campaigns)
                /\ res'.totalPages * l.limit >= res'.total
                /\ (res'.totalPages - 1) * l.limit < res'.total
                /\ res'.status = 200]_vars

\* the second page of two of three campaigns, one of them paused
C22_Witness ==
    /\ res.op = "list" /\ res.status = 200
    /\ res.page = 2 /\ res.total = 3 /\ res.totalPages = 2
    /\ Len(res.campaigns) = 1
    /\ Cardinality(DOMAIN campaigns) = 3
    /\ \E c \in DOMAIN campaigns : campaigns[c].paused = "true"
    /\ \A c \in DOMAIN campaigns :
          campaigns[c].date >= campaigns[res.campaigns[1]].date

\* C23: the donor's listing has exactly one entry per donation of the caller
\* and none of another donor; an entry whose campaign is deleted carries the
\* name "Unknown" and an empty image, and the listing succeeds.  The donations
\* are those the find read, the campaigns those the second read found.
C23_OwnDonationsWithFallback ==
    [][\A r \in Procs :
          MyEnrich(r)
          => LET seen == reqs[r].list.seen
                 caller == reqs[r].email
                 mine == {d \in DOMAIN seen : seen[d].donorEmail = caller}
                 entries == res'.entries
             IN /\ res'.status = 200
                /\ Len(entries) = Cardinality(mine)
                /\ \A d \in mine : \E k \in 1..Len(entries) : entries[k]._id = d
                /\ \A k \in 1..Len(entries) :
                      /\ entries[k]._id \in mine
                      /\ entries[k].donorEmail = caller
                      /\ entries[k].amount = seen[entries[k]._id].amount
                      /\ seen[entries[k]._id].donationId \notin DOMAIN campaigns
                            => /\ entries[k].petName = "Unknown"
                               /\ entries[k].petImage = ""]_vars

\* a listing of one donation to a deleted campaign, another donor's donation
\* being in the ledger
C23_Witness ==
    /\ res.op = "myDonations" /\ res.status = 200
    /\ Len(res.entries) = 1
    /\ res.entries[1].petName = "Unknown"
    /\ campaigns = <<>>
    /\ \E d \in DOMAIN donations :
          /\ donations[d].donorEmail # res.entries[1].donorEmail
          /\ d # res.entries[1]._id

\* C26: deleteCampaign removes the campaign record alone and leaves every
\* donation as it was; a later reverseDonation by the donor of a donation to
\* the deleted campaign is accepted, deletes the donation and answers success
\* with no campaign changed.
C26_OrphanedDonationsStayReversible ==
    [][/\ \A r \in Procs, e \in Emails, c \in CampaignIds :
             AdminDeleteCampaign(r, e, c)
             => /\ donations' = donations
                /\ \A x \in DOMAIN campaigns \ {c} :
                      x \in DOMAIN campaigns' /\ campaigns'[x] = campaigns[x]
       /\ \A r \in Procs, e \in Emails, d \in DOMAIN donations :
             (/\ ReverseStart(r, e, d)
              /\ donations[d].donorEmail = e
              /\ donations[d].donationId \notin DOMAIN campaigns)
             => reqs'[r].pc = "delete" /\ reqs'[r].id = d
       /\ \A r \in Procs :
             (/\ ReverseDelete(r)
              /\ reqs[r].id \in DOMAIN donations
              /\ reqs[r].donation.donationId \notin DOMAIN campaigns)
             => /\ DOMAIN donations' = DOMAIN donations \ {reqs[r].id}
                /\ reqs'[r].pc = "dec"
                /\ UNCHANGED campaigns
       /\ \A r \in Procs :
             (ReverseDec(r) /\ reqs[r].donation.donationId \notin DOMAIN campaigns)
             => /\ res' = Response("reverse", 200)
                /\ UNCHANGED <<campaigns, donations>>]_vars

\* a donation that was counted, whose campaign was then deleted, and whose
\* reversal was answered success with no decrement
C26_Witness ==
    /\ res = Response("reverse", 200)
    /\ \E d \in DOMAIN hist :
          /\ d \notin DOMAIN donations
          /\ hist[d].campaign \notin DOMAIN campaigns
          /\ hist[d].incs = 1 /\ hist[d].decs = 0 /\ hist[d].oks = 1
    /\ \A r \in Procs : Free(r)

\* C24: every donation record carries as donor the identity of the token of
\* the recordDonation request that created it, whatever donor the body names,
\* and keeps it.
C24_DonorIsTheCaller ==
    [][/\ \A r \in Procs, e \in Emails, b \in DonorBodies :
             (RecordStart(r, e, b) /\ reqs'[r].pc = "insert") => reqs'[r].email = e
       /\ \A r \in Procs :
             (reqs[r].pc = "insert" /\ reqs'[r].pc = "insert")
             => reqs'[r].email = reqs[r].email
       /\ \A r \in Procs :
             RecordInsert(r)
             => /\ nextDonationId \in DOMAIN donations'
                /\ donations'[nextDonationId].donorEmail = reqs[r].email
       /\ \A d \in DOMAIN donations' :
             IF d \in DOMAIN donations
             THEN donations'[d].donorEmail = donations[d].donorEmail
             ELSE \E r \in Procs : RecordInsert(r) /\ d = nextDonationId]_vars

\* a donation of u1 in the ledger, sent with a body that named u2
C24_Witness ==
    \E d \in DOMAIN donations :
        /\ donations[d].donorEmail = "u1"
        /\ hist[d].incs = 1
        /\ res = Response("record", 200)

\* C25: every campaign created through createCampaign is returned by the
\* administrator's listing from the moment it is created, whether or not its
\* pause flag was ever set.
C25_AdminListsEveryCampaign ==
    [][\A r \in Procs, e \in Emails :
          (AdminListAll(r, e) /\ VerifyAdmin(e))
          => /\ res'.status = 200
             /\ res'.campaigns = DOMAIN campaigns]_vars

====
